---- MODULE Spec2Model ----
(***************************************************************************)
(* Model of classifier/src/write_output.rs: the bit-vector codec           *)
(* (int_to_bool_vec, bool_vec_to_string), the class partitioning and zip   *)
(* export of write_class_report_and_dump_bdds, and write_empty_report.     *)
(*                                                                         *)
(* GraphColors values are modelled as finite sets of colors; intersect,    *)
(* minus, is_empty and approx_cardinality are the set operations of the    *)
(* same name.  Report lines are strings, a label is its characters.  Rust  *)
(* vectors are 0-indexed, TLA+ sequences 1-indexed: position p of a Rust   *)
(* vector is position p + 1 here.                                          *)
(***************************************************************************)
EXTENDS Integers, Sequences, FiniteSets, TLC

VARIABLES
    op,                      \* which public function is running
    assertion_formulae,      \* &[String]
    all_valid_colors,        \* GraphColors
    named_property_formulae, \* &[(String, String)]
    property_results,        \* &[GraphColors]
    num_hctl_vars,           \* usize
    path,                    \* archive_name: "no_parent", "parent_missing" or "parent_exists"
    dir_exists,              \* the parent directory of the archive exists
    file_exists,             \* the archive file has been created
    entries,                 \* entries started in the zip writer, in order
    report,                  \* the intermediate report buffer (Vec<u8>), as lines
    number_of_combinations,  \* i32
    i,                       \* index of the class loop
    validity,                \* validity vector of the last class processed
    classes,                 \* category_colors of the classes processed so far
    finish_calls,            \* number of calls of zip_writer.finish()
    pc,                      \* position in the running function
    outcome,                 \* "running", "Ok", "Err" or "panic"
    cause,                   \* what made the function fail
    number,                  \* int_to_bool_vec: argument number
    bits_num,                \* int_to_bool_vec: argument bits_num
    bits,                    \* int_to_bool_vec: result
    label,                   \* bool_vec_to_string of bits
    cpc                      \* position of the codec run

vars == <<op, assertion_formulae, all_valid_colors, named_property_formulae,
          property_results, num_hctl_vars, path, dir_exists, file_exists,
          entries, report, number_of_combinations, i, validity, classes,
          finish_calls, pc, outcome, cause, number, bits_num, bits, label, cpc>>

ioVars == <<op, assertion_formulae, all_valid_colors, named_property_formulae,
            property_results, num_hctl_vars, path, dir_exists, file_exists,
            entries, report, number_of_combinations, i, validity, classes,
            finish_calls, pc, outcome, cause>>

codecVars == <<number, bits_num, bits, label, cpc>>

inputVars == <<op, assertion_formulae, all_valid_colors, named_property_formulae,
               property_results, num_hctl_vars, path>>

----------------------------------------------------------------------------
(* Bounds of the model                                                     *)

NumColors == 2

MaxProps == 2

MaxWidth == 5

(* Program constants                                                       *)

\* The ceiling checked one too high: assert!(property_results.len() <= 31).
MaxPropertyCountOffByOne == 31 + 1

MaxPropertyCount == 31

I32Bits == 32

----------------------------------------------------------------------------
(* Integer helpers                                                         *)

RECURSIVE Pow2(_)
Pow2(n) == IF n = 0 THEN 1 ELSE 2 * Pow2(n - 1)

\* 2 * x on i32, keeping the low 32 bits (the model checker's integers are
\* 32 bits wide themselves, so the wrap is computed without leaving the range).
Quarter32 == Pow2(I32Bits - 2)

Double32(x) ==
    IF x >= Quarter32 THEN 2 * ((x - Quarter32) - Quarter32)
    ELSE IF x < -Quarter32 THEN 2 * ((x + Quarter32) + Quarter32)
    ELSE 2 * x

\* x << n on i32, for a shift amount below the width.
RECURSIVE Shl32(_, _)
Shl32(x, n) == IF n = 0 THEN x ELSE Shl32(Double32(x), n - 1)

\* x >> n on i32 (arithmetic shift), for a shift amount below the width.
Shr32(x, n) == x \div Pow2(n)

----------------------------------------------------------------------------
(* The bit-vector codec                                                    *)

RECURSIVE IntToBoolVecLoop(_, _, _, _)
IntToBoolVecLoop(bs, num, width, k) ==
    IF k >= width THEN bs
    ELSE LET msb_index == width - k - 1
         IN  IntToBoolVecLoop([bs EXCEPT ![msb_index + 1] = ((Shr32(num, k) % 2) = 1)],
                              num, width, k + 1)

\* The vector filled least significant bit first.
int_to_bool_vec_lsb_first(num, width) ==
    [p \in 1..width |-> ((Shr32(num, p - 1) % 2) = 1)]

int_to_bool_vec(num, width) ==
    IntToBoolVecLoop([p \in 1..width |-> FALSE], num, width, 0)

bool_vec_to_string(bool_data) ==
    [p \in 1..Len(bool_data) |-> IF bool_data[p] THEN "1" ELSE "0"]

----------------------------------------------------------------------------
(* Formatting                                                              *)

\* A sequence of characters as one string.
RECURSIVE Concat(_)
Concat(chars) ==
    IF chars = <<>> THEN "" ELSE Head(chars) \o Concat(Tail(chars))

\* "{:.0}" of a cardinality.
Fmt0(x) == ToString(x)

\* GraphColors::approx_cardinality
approx_cardinality(set) == Cardinality(set)

\* An emptiness test that never answers true.
is_empty_never(set) == FALSE

\* GraphColors::is_empty
is_empty(set) == set = {}

\* GraphColors::intersect
intersect(a, b) == a \cap b

\* A difference that removes nothing.
minus_removes_nothing(a, b) == a

\* GraphColors::minus
minus(a, b) == a \ b

----------------------------------------------------------------------------
(* Inputs                                                                  *)

Colors == 1..NumColors

ColorSets == SUBSET Colors

\* Property counts at and above the ceiling of 30 enumerable properties.
CeilingCounts == {31, 32}

\* Results of up to MaxProps properties, and lists at and above the ceiling.
PropertyLists ==
    UNION {[1..n -> ColorSets] : n \in 0..MaxProps}
    \cup {[j \in 1..n |-> Colors] : n \in CeilingCounts}

NamedFormula(j) == <<"p" \o ToString(j), "f" \o ToString(j)>>

\* Name lists as long as the results, one shorter and one longer.
NameLists(n) ==
    {[j \in 1..m |-> NamedFormula(j)] : m \in {k \in {n - 1, n, n + 1} : k >= 0}}

AssertionLists == {<<>>, <<"a2", "a1">>}

Paths == {"no_parent", "parent_missing", "parent_exists"}

----------------------------------------------------------------------------
(* The archive                                                             *)

Entry(name, content, complete) ==
    [name |-> name, content |-> content, complete |-> complete]

Prefixes(lines) == {SubSeq(lines, 1, k) : k \in 0..(Len(lines) - 1)}

Terminate(kind, why) ==
    /\ pc' = "done"
    /\ outcome' = kind
    /\ cause' = why

\* File::create(archive_path)
CanCreate == path # "no_parent" /\ dir_exists

----------------------------------------------------------------------------
(* The report                                                              *)

RECURSIVE AssertionLines(_)
AssertionLines(assertions) ==
    IF assertions = <<>> THEN <<>>
    ELSE <<"# " \o Head(assertions)>> \o AssertionLines(Tail(assertions))

\* Lines of the property loop up to and including index k - 1 (0-indexed),
\* stopping inside the iteration whose result set does not exist.
RECURSIVE PropertyLines(_, _, _)
PropertyLines(names, results, k) ==
    IF k > Len(names) THEN <<>>
    ELSE LET head == <<"# " \o names[k][1] \o "  |  " \o names[k][2]>>
         IN  IF k > Len(results) THEN head
             ELSE head
                  \o <<Fmt0(approx_cardinality(results[k])) \o " colors satisfy this property", "">>
                  \o PropertyLines(names, results, k + 1)

\* category_colors of the class with the given validity vector.
RECURSIVE CategoryColors(_, _, _, _)
CategoryColors(colors, results, valid, k) ==
    IF k > Len(results) \/ k > Len(valid) THEN colors
    ELSE CategoryColors(IF valid[k] THEN intersect(colors, results[k])
                                    ELSE minus(colors, results[k]),
                        results, valid, k + 1)

\* Class lines written for the non-empty classes only.
ClassLinesSkippingEmpty(valid, category_colors) ==
    IF category_colors = {} THEN <<>>
    ELSE << "# " \o Concat(bool_vec_to_string(valid)),
            Fmt0(approx_cardinality(category_colors)) \o " colors in this category",
            "" >>

ClassLines(valid, category_colors) ==
    << "# " \o Concat(bool_vec_to_string(valid)),
       Fmt0(approx_cardinality(category_colors)) \o " colors in this category",
       "" >>

\* A dump name that leaves the label out.
BddFileNameWithoutLabel(valid) == "bdd_dump_" \o ".txt"

BddFileName(valid) == "bdd_dump_" \o Concat(bool_vec_to_string(valid)) \o ".txt"

\* The empty report with the assertion lines after the cardinality line.
EmptyReportLinesMisordered(assertions) ==
    <<"### Assertion formulae", "">>
    \o <<"0 colors satisfy all assertions">>
    \o AssertionLines(assertions)
    \o <<"">>

EmptyReportLines(assertions) ==
    <<"### Assertion formulae", "">>
    \o AssertionLines(assertions)
    \o <<"0 colors satisfy all assertions", "">>

----------------------------------------------------------------------------
(* Initial states                                                          *)

CodecIdle ==
    /\ number = 0
    /\ bits_num = 0
    /\ bits = <<>>
    /\ label = <<>>
    /\ cpc = "idle"

Init ==
    /\ op \in {"class_report", "empty_report"}
    /\ assertion_formulae \in AssertionLists
    /\ path \in Paths
    /\ IF op = "class_report"
       THEN /\ all_valid_colors \in ColorSets
            /\ property_results \in PropertyLists
            /\ named_property_formulae \in NameLists(Len(property_results))
            /\ num_hctl_vars = 3
            /\ pc = "cr_dirs"
       ELSE /\ all_valid_colors = {}
            /\ property_results = <<>>
            /\ named_property_formulae = <<>>
            /\ num_hctl_vars = 0
            /\ pc = "er_create"
    /\ dir_exists = (path # "parent_missing")
    /\ file_exists = FALSE
    /\ entries = <<>>
    /\ report = <<>>
    /\ number_of_combinations = 0
    /\ i = 0
    /\ validity = <<>>
    /\ classes = <<>>
    /\ finish_calls = 0
    /\ outcome = "running"
    /\ cause = "none"
    /\ CodecIdle

----------------------------------------------------------------------------
(* write_class_report_and_dump_bdds                                        *)

\* archive_path.parent().unwrap() and create_dir_all(prefix)?
CreateDirs ==
    /\ pc = "cr_dirs"
    /\ IF path = "no_parent"
       THEN /\ Terminate("panic", "parent_unwrap")
            /\ UNCHANGED dir_exists
       ELSE \E ok \in BOOLEAN :
               IF ok
               THEN /\ dir_exists' = TRUE
                    /\ pc' = "cr_create"
                    /\ UNCHANGED <<outcome, cause>>
               ELSE /\ Terminate("Err", "create_dir_all")
                    /\ UNCHANGED dir_exists
    /\ UNCHANGED <<inputVars, file_exists, entries, report, number_of_combinations,
                   i, validity, classes, finish_calls, codecVars>>

\* File::create(archive_path)? and ZipWriter::new(archive)
CreateArchive ==
    /\ pc = "cr_create"
    /\ \/ /\ CanCreate
          /\ file_exists' = TRUE
          /\ pc' = "cr_metadata"
          /\ UNCHANGED <<outcome, cause>>
       \/ /\ Terminate("Err", IF dir_exists THEN "file_create" ELSE "parent_not_found")
          /\ UNCHANGED file_exists
    /\ UNCHANGED <<inputVars, dir_exists, entries, report, number_of_combinations,
                   i, validity, classes, finish_calls, codecVars>>

\* start_file("metadata.txt").unwrap() and writeln!(zip_writer, "{num_hctl_vars}")?
WriteMetadata ==
    /\ pc = "cr_metadata"
    /\ \/ /\ entries' = Append(entries, Entry("metadata.txt", <<Fmt0(num_hctl_vars)>>, TRUE))
          /\ pc' = "cr_assertions"
          /\ UNCHANGED <<outcome, cause>>
       \/ /\ Terminate("panic", "start_file")
          /\ UNCHANGED entries
       \/ /\ entries' = Append(entries, Entry("metadata.txt", <<>>, FALSE))
          /\ Terminate("Err", "write")
    /\ UNCHANGED <<inputVars, dir_exists, file_exists, report, number_of_combinations,
                   i, validity, classes, finish_calls, codecVars>>

\* The assertion section of the report buffer.
ReportAssertions ==
    /\ pc = "cr_assertions"
    /\ report' = report
                 \o <<"### Assertion formulae", "">>
                 \o AssertionLines(assertion_formulae)
                 \o <<Fmt0(approx_cardinality(all_valid_colors)) \o " colors satisfy all assertions", "">>
    /\ pc' = "cr_properties"
    /\ UNCHANGED <<inputVars, dir_exists, file_exists, entries, number_of_combinations,
                   i, validity, classes, finish_calls, outcome, cause, codecVars>>

\* The property section: property_results[i] panics when the names outnumber the results.
ReportProperties ==
    /\ pc = "cr_properties"
    /\ report' = report
                 \o <<"### Property formulae individually", "">>
                 \o PropertyLines(named_property_formulae, property_results, 1)
    /\ IF Len(named_property_formulae) > Len(property_results)
       THEN Terminate("panic", "index_out_of_bounds")
       ELSE /\ pc' = "cr_check"
            /\ UNCHANGED <<outcome, cause>>
    /\ UNCHANGED <<inputVars, dir_exists, file_exists, entries, number_of_combinations,
                   i, validity, classes, finish_calls, codecVars>>

\* The header of the class section, assert!(property_results.len() < 31) and 1 << len.
CheckPropertyCount ==
    /\ pc = "cr_check"
    /\ report' = report \o <<"### Classes", "">>
    /\ IF Len(property_results) < MaxPropertyCount
       THEN /\ number_of_combinations' = Shl32(1, Len(property_results))
            /\ i' = 0
            /\ pc' = "cr_loop"
            /\ UNCHANGED <<outcome, cause>>
       ELSE /\ Terminate("panic", "too_many_properties")
            /\ UNCHANGED <<number_of_combinations, i>>
    /\ UNCHANGED <<inputVars, dir_exists, file_exists, entries, validity, classes,
                   finish_calls, codecVars>>

\* One iteration of for i in 0..number_of_combinations.
ClassStep ==
    /\ pc = "cr_loop"
    /\ i < number_of_combinations
    /\ LET valid == int_to_bool_vec(i, Len(property_results))
           category_colors == CategoryColors(all_valid_colors, property_results, valid, 1)
       IN  /\ validity' = valid
           /\ classes' = Append(classes, category_colors)
           /\ report' = report \o ClassLines(valid, category_colors)
           /\ IF ~is_empty(category_colors)
              THEN \/ /\ entries' = Append(entries,
                                           Entry(BddFileName(valid), <<category_colors>>, TRUE))
                      /\ i' = i + 1
                      /\ UNCHANGED <<pc, outcome, cause>>
                   \/ /\ Terminate("panic", "start_file")
                      /\ UNCHANGED <<entries, i>>
                   \/ /\ entries' = Append(entries, Entry(BddFileName(valid), <<>>, FALSE))
                      /\ Terminate("Err", "write")
                      /\ UNCHANGED i
              ELSE /\ i' = i + 1
                   /\ UNCHANGED <<entries, pc, outcome, cause>>
    /\ UNCHANGED <<inputVars, dir_exists, file_exists, number_of_combinations,
                   finish_calls, codecVars>>

\* The report written with a failed write_all ignored instead of returned.
WriteReportIgnoringWriteError ==
    /\ pc = "cr_loop"
    /\ i >= number_of_combinations
    /\ \/ /\ entries' = Append(entries, Entry("report.txt", report, TRUE))
          /\ pc' = "cr_finish"
          /\ UNCHANGED <<outcome, cause>>
       \/ /\ Terminate("panic", "start_file")
          /\ UNCHANGED entries
       \/ \E part \in Prefixes(report) :
             /\ entries' = Append(entries, Entry("report.txt", part, FALSE))
             /\ pc' = "cr_finish"
             /\ UNCHANGED <<outcome, cause>>
    /\ UNCHANGED <<inputVars, dir_exists, file_exists, report, number_of_combinations,
                   i, validity, classes, finish_calls, codecVars>>

\* start_file("report.txt").unwrap() and zip_writer.write_all(&report)?
WriteReport ==
    /\ pc = "cr_loop"
    /\ i >= number_of_combinations
    /\ \/ /\ entries' = Append(entries, Entry("report.txt", report, TRUE))
          /\ pc' = "cr_finish"
          /\ UNCHANGED <<outcome, cause>>
       \/ /\ Terminate("panic", "start_file")
          /\ UNCHANGED entries
       \/ \E part \in Prefixes(report) :
             /\ entries' = Append(entries, Entry("report.txt", part, FALSE))
             /\ Terminate("Err", "write")
    /\ UNCHANGED <<inputVars, dir_exists, file_exists, report, number_of_combinations,
                   i, validity, classes, finish_calls, codecVars>>

\* zip_writer.finish().unwrap() and Ok(())
Finish ==
    /\ pc = "cr_finish"
    /\ finish_calls' = finish_calls + 1
    /\ \/ Terminate("Ok", "none")
       \/ Terminate("panic", "finish")
    /\ UNCHANGED <<inputVars, dir_exists, file_exists, entries, report,
                   number_of_combinations, i, validity, classes, codecVars>>

----------------------------------------------------------------------------
(* write_empty_report                                                      *)

\* File::create(archive_path)? and ZipWriter::new(archive)
EmptyCreateArchive ==
    /\ pc = "er_create"
    /\ \/ /\ CanCreate
          /\ file_exists' = TRUE
          /\ pc' = "er_report"
          /\ UNCHANGED <<outcome, cause>>
       \/ /\ Terminate("Err", IF dir_exists THEN "file_create" ELSE "parent_not_found")
          /\ UNCHANGED file_exists
    /\ UNCHANGED <<inputVars, dir_exists, entries, report, number_of_combinations,
                   i, validity, classes, finish_calls, codecVars>>

\* start_file("report.txt").unwrap() and the writeln! calls on the zip writer
EmptyWriteReport ==
    /\ pc = "er_report"
    /\ \/ /\ entries' = Append(entries,
                               Entry("report.txt", EmptyReportLines(assertion_formulae), TRUE))
          /\ pc' = "er_finish"
          /\ UNCHANGED <<outcome, cause>>
       \/ /\ Terminate("panic", "start_file")
          /\ UNCHANGED entries
       \/ \E part \in Prefixes(EmptyReportLines(assertion_formulae)) :
             /\ entries' = Append(entries, Entry("report.txt", part, FALSE))
             /\ Terminate("Err", "write")
    /\ UNCHANGED <<inputVars, dir_exists, file_exists, report, number_of_combinations,
                   i, validity, classes, finish_calls, codecVars>>

\* zip_writer.finish().unwrap() and Ok(())
EmptyFinish ==
    /\ pc = "er_finish"
    /\ finish_calls' = finish_calls + 1
    /\ \/ Terminate("Ok", "none")
       \/ Terminate("panic", "finish")
    /\ UNCHANGED <<inputVars, dir_exists, file_exists, entries, report,
                   number_of_combinations, i, validity, classes, codecVars>>

Next ==
    \/ CreateDirs
    \/ CreateArchive
    \/ WriteMetadata
    \/ ReportAssertions
    \/ ReportProperties
    \/ CheckPropertyCount
    \/ ClassStep
    \/ WriteReport
    \/ Finish
    \/ EmptyCreateArchive
    \/ EmptyWriteReport
    \/ EmptyFinish

Spec == Init /\ [][Next]_vars

----------------------------------------------------------------------------
(* The codec on its own: int_to_bool_vec and bool_vec_to_string applied to *)
(* an index below 2^bits_num, up to the widest vector the ceiling allows.  *)

CodecWidths == (0..MaxWidth) \cup {MaxPropertyCount - 1}

CodecNumbers ==
    (0..(Pow2(MaxWidth) - 1))
    \cup {Pow2(MaxPropertyCount - 2), Pow2(MaxPropertyCount - 2) + 1,
          Pow2(MaxPropertyCount - 1) - 2, Pow2(MaxPropertyCount - 1) - 1}

CodecInit ==
    /\ bits_num \in CodecWidths
    /\ number \in {k \in CodecNumbers : k < Pow2(bits_num)}
    /\ bits = <<>>
    /\ label = <<>>
    /\ cpc = "start"
    /\ op = "codec"
    /\ assertion_formulae = <<>>
    /\ path = "parent_exists"
    /\ all_valid_colors = {}
    /\ property_results = <<>>
    /\ named_property_formulae = <<>>
    /\ num_hctl_vars = 0
    /\ pc = "done"
    /\ dir_exists = TRUE
    /\ file_exists = FALSE
    /\ entries = <<>>
    /\ report = <<>>
    /\ number_of_combinations = 0
    /\ i = 0
    /\ validity = <<>>
    /\ classes = <<>>
    /\ finish_calls = 0
    /\ outcome = "running"
    /\ cause = "none"

Encode ==
    /\ cpc = "start"
    /\ bits' = int_to_bool_vec(number, bits_num)
    /\ cpc' = "encoded"
    /\ UNCHANGED <<ioVars, number, bits_num, label>>

ToLabel ==
    /\ cpc = "encoded"
    /\ label' = bool_vec_to_string(bits)
    /\ cpc' = "labelled"
    /\ UNCHANGED <<ioVars, number, bits_num, bits>>

CodecNext == Encode \/ ToLabel

CodecSpec == CodecInit /\ [][CodecNext]_vars

----------------------------------------------------------------------------
(* Properties                                                              *)

N == Len(property_results)

ClassOp == op = "class_report"

\* The class loop has run to its end.
AllClassesProcessed == ClassOp /\ (pc = "cr_finish" \/ outcome = "Ok")

\* The index k written as width binary digits, most significant first.
RECURSIVE BinaryLabel(_, _)
BinaryLabel(k, width) ==
    IF width = 0 THEN ""
    ELSE BinaryLabel(k \div 2, width - 1) \o (IF k % 2 = 1 THEN "1" ELSE "0")

\* A sequence of "0"/"1" characters read as a binary number, first character
\* most significant.
RECURSIVE BinaryValue(_)
BinaryValue(chars) ==
    IF chars = <<>> THEN 0
    ELSE 2 * BinaryValue(SubSeq(chars, 1, Len(chars) - 1))
         + (IF chars[Len(chars)] = "1" THEN 1 ELSE 0)

DumpName(k) == "bdd_dump_" \o BinaryLabel(k, N) \o ".txt"

EntriesNamed(name) == {e \in 1..Len(entries) : entries[e].name = name}

EntryNames == [e \in 1..Len(entries) |-> entries[e].name]

NonEmptyClassIndices == {k \in 0..(Len(classes) - 1) : classes[k + 1] # {}}

\* C1: the classes computed from the baseline are pairwise disjoint subsets
\* of it, and once all 2^N combinations are processed their union is the
\* baseline exactly.
C1_ClassesPartitionBaseline ==
    ClassOp =>
        /\ \A a, b \in 1..Len(classes) : a # b => classes[a] \cap classes[b] = {}
        /\ \A a \in 1..Len(classes) : classes[a] \subseteq all_valid_colors
        /\ AllClassesProcessed =>
              /\ Len(classes) = Pow2(N)
              /\ UNION {classes[a] : a \in 1..Len(classes)} = all_valid_colors

C1_Witness ==
    /\ ClassOp /\ outcome = "Ok" /\ N = 2
    /\ all_valid_colors = Colors
    /\ Cardinality(NonEmptyClassIndices) >= 2
    /\ property_results[1] \cap property_results[2] # {}

\* C2: an empty class never has a bdd_dump entry, a processed class of
\* non-zero cardinality has exactly one, named with its own label, and no
\* other bdd_dump entry exists.
C2_EmptinessGating ==
    ClassOp =>
        /\ \A k \in 0..(Len(classes) - 1) :
              /\ classes[k + 1] = {} => EntriesNamed(DumpName(k)) = {}
              /\ (Cardinality(classes[k + 1]) # 0 /\ k < i)
                    => Cardinality(EntriesNamed(DumpName(k))) = 1
              /\ Cardinality(EntriesNamed(DumpName(k))) <= 1
        /\ \A e \in 1..Len(entries) :
              entries[e].name \in {"metadata.txt", "report.txt"}
                                  \cup {DumpName(k) : k \in NonEmptyClassIndices}

C2_Witness ==
    /\ ClassOp /\ outcome = "Ok" /\ N = 2
    /\ \E k \in 0..3 : classes[k + 1] = {}
    /\ Cardinality(NonEmptyClassIndices) >= 2

C4_MismatchIsFatal ==
    (ClassOp /\ Len(named_property_formulae) # N /\ pc = "done" /\ outcome # "Err")
        => outcome = "panic"

\* 1 << n is 2^n, a positive i32, for every n the ceiling admits.
ShiftsFit == \A n \in 0..30 : Shl32(1, n) = Pow2(n) /\ Shl32(1, n) > 0

\* C5: a run that reaches the property-count check panics there exactly when
\* N >= 31, before any class is enumerated; a run with N >= 31 never
\* enumerates a class and never succeeds; for N <= 30 the combination count
\* is 2^N, computed in 32 bits without overflow, and a loop that ends has
\* processed every index below it.
C5_PropertyCeiling ==
    ClassOp =>
        /\ cause = "too_many_properties" =>
              /\ outcome = "panic"
              /\ N >= 31
              /\ report[Len(report) - 1] = "### Classes"
        /\ N >= 31 =>
              /\ classes = <<>>
              /\ pc \notin {"cr_loop", "cr_finish"}
              /\ outcome # "Ok"
              /\ \A e \in 1..Len(entries) : entries[e].name = "metadata.txt"
        /\ (pc \in {"cr_loop", "cr_finish"} \/ outcome = "Ok") =>
              /\ N <= 30
              /\ number_of_combinations = Pow2(N)
              /\ Len(classes) \in {i, i + 1}
              /\ i <= number_of_combinations
        /\ AllClassesProcessed => i = Pow2(N) /\ Len(classes) = Pow2(N)
        /\ ShiftsFit

C5_Witness ==
    /\ ClassOp /\ cause = "too_many_properties" /\ N = 31
    /\ Len(entries) = 1

\* C6: the creation of the archive file never fails because the parent
\* directory of the target path is missing.
C6_ParentsCreatedBeforeArchive ==
    ~(outcome = "Err" /\ cause = "parent_not_found")

\* C7: int_to_bool_vec(i, N) has length N, its entry at position p from the
\* front is bit N-1-p of i, its label read as a binary number is i, and no
\* other index below 2^N has the same label.
C7_CodecRoundTrip ==
    /\ cpc \in {"encoded", "labelled"} =>
          /\ Len(bits) = bits_num
          /\ \A q \in 0..(bits_num - 1) :
                bits[q + 1] = (((number \div Pow2(bits_num - 1 - q)) % 2) = 1)
    /\ cpc = "labelled" =>
          /\ Len(label) = bits_num
          /\ \A q \in 1..Len(label) : label[q] \in {"0", "1"}
          /\ BinaryValue(label) = number
          /\ bits_num <= MaxWidth =>
                \A k \in 0..(Pow2(bits_num) - 1) :
                    k # number => bool_vec_to_string(int_to_bool_vec(k, bits_num)) # label

C7_Witness ==
    /\ cpc = "labelled"
    /\ bits_num = 4
    /\ number = 2
    /\ label = <<"0", "0", "1", "0">>

\* C8: a successful write_empty_report leaves one entry, report.txt, holding
\* the header, one line per assertion in input order and the literal line
\* "0 colors satisfy all assertions"; the run never starts another entry.
C8_EmptyReportOnly ==
    op = "empty_report" =>
        /\ \A e \in 1..Len(entries) : entries[e].name = "report.txt"
        /\ Len(entries) <= 1
        /\ outcome = "Ok" =>
              /\ Len(entries) = 1
              /\ entries[1].complete
              /\ LET text == entries[1].content
                     n == Len(assertion_formulae)
                 IN  /\ Len(text) = n + 4
                     /\ text[1] = "### Assertion formulae"
                     /\ text[2] = ""
                     /\ \A j \in 1..n : text[2 + j] = "# " \o assertion_formulae[j]
                     /\ text[n + 3] = "0 colors satisfy all assertions"
                     /\ text[n + 4] = ""

C8_Witness ==
    /\ op = "empty_report" /\ outcome = "Ok"
    /\ assertion_formulae = <<"a2", "a1">>

\* C9: the class section of the report holds one record per processed class,
\* in ascending index order, the k-th being the label of k and the
\* cardinality of that class, empty classes included; a loop that ends has
\* written exactly 2^N records, and they are what report.txt receives.
ClassesHeader == CHOOSE h \in 1..Len(report) : report[h] = "### Classes"

C9_ClassRecordsInOrder ==
    (ClassOp /\ (pc \in {"cr_loop", "cr_finish"} \/ outcome = "Ok")) =>
        /\ Len(report) = ClassesHeader + 1 + 3 * Len(classes)
        /\ \A k \in 0..(Len(classes) - 1) :
              LET at == ClassesHeader + 2 + 3 * k
              IN  /\ report[at] = "# " \o BinaryLabel(k, N)
                  /\ report[at + 1] = ToString(Cardinality(classes[k + 1]))
                                      \o " colors in this category"
                  /\ report[at + 2] = ""
        /\ AllClassesProcessed =>
              /\ Len(classes) = Pow2(N)
              /\ \A e \in EntriesNamed("report.txt") :
                    entries[e].complete => entries[e].content = report

C9_Witness ==
    /\ ClassOp /\ outcome = "Ok" /\ N = 2
    /\ classes[2] = {} /\ classes[3] # {}

\* C10: the entries are started in the order metadata.txt, the bdd_dump
\* entries of the non-empty classes in ascending index order, report.txt;
\* nothing is started after report.txt and no name is started twice.
RECURSIVE DumpNamesFrom(_)
DumpNamesFrom(k) ==
    IF k >= Len(classes) THEN <<>>
    ELSE (IF classes[k + 1] # {} THEN <<DumpName(k)>> ELSE <<>>) \o DumpNamesFrom(k + 1)

C10_EntryOrder ==
    ClassOp =>
        /\ \A a, b \in 1..Len(entries) : a # b => entries[a].name # entries[b].name
        /\ \A e \in EntriesNamed("report.txt") : e = Len(entries)
        /\ \A e \in EntriesNamed("metadata.txt") : e = 1
        /\ outcome = "Ok" =>
              EntryNames = <<"metadata.txt">> \o DumpNamesFrom(0) \o <<"report.txt">>

C10_Witness ==
    /\ ClassOp /\ outcome = "Ok" /\ N = 2
    /\ Len(entries) = 4
    /\ classes[1] = {}

====
